---- MODULE Spec2Model ----
(***************************************************************************)
(* State-machine model of the mineTUIper board engine: board.py (Cell,     *)
(* Board), mapper.py (MappedBoard), solver.py (Cluster, Solver) and        *)
(* analyzer.py (Analyzer.analyze); the last section models main.py.        *)
(*                                                                         *)
(* Cells are numbered 1..rows*cols in row-major order: the cell at         *)
(* (row, col) is row*cols + col + 1.  Number 0 is kept for a Cell object   *)
(* that does not belong to the board's grid: Analyzer.analyze keeps the    *)
(* first board's board[0][0] in init_cell and hands that object to every   *)
(* board it builds afterwards.                                             *)
(***************************************************************************)
EXTENDS Integers, Sequences, FiniteSets, TLC

\* Largest grid, largest configured mine count, longest sequence of calls
\* made on a board from outside, and longest run of repairs of one generation.
MaxRows == 2
MaxCols == 4
MaxMines == 3
MaxOps == 3

VARIABLES
    board,        \* the Board object and its Cell objects
    mapped,       \* TRUE: a MappedBoard, FALSE: a plain Board
    no_guessing,  \* MappedBoard.no_guessing / Analyzer.no_guessing
    total,        \* the mines argument of the constructor
    init_cell,    \* init_cell: None, or the number of the start cell
    pc,           \* position of the running method
    err,          \* "none", or the exception that ended the run
    clusters,     \* Solver.clusters after the last propagation round
    last,         \* what the last step did (for the properties)
    ops           \* number of outside calls made so far

vars == <<board, mapped, no_guessing, total, init_cell, pc, err, clusters, last, ops>>

None == -1
Foreign == 0

Max(a, b) == IF a > b THEN a ELSE b
Min(a, b) == IF a < b THEN a ELSE b

(***************************************************************************)
(* Board and Cell                                                          *)
(***************************************************************************)

\* The cells of the board's own grid (Board.cells), and every cell number.
Own(b) == 1..(b.rows * b.cols)
Ids(b) == 0..(b.rows * b.cols)

\* Cell.row and Cell.col. The foreign cell is the first board's board[0][0].
RowOf(b, c) == IF c = Foreign THEN 0 ELSE (c - 1) \div b.cols
ColOf(b, c) == IF c = Foreign THEN 0 ELSE (c - 1) % b.cols

\* Board.__init__: every cell hidden, no mines, unflagged = mines.
NewBoard(rows, cols, mines) ==
    [rows |-> rows, cols |-> cols, unflagged |-> mines,
     is_mine |-> [c \in 0..(rows * cols) |-> FALSE],
     mines |-> [c \in 0..(rows * cols) |-> 0],
     flags |-> [c \in 0..(rows * cols) |-> 0],
     c_revealed |-> [c \in 0..(rows * cols) |-> FALSE],
     c_flagged |-> [c \in 0..(rows * cols) |-> FALSE],
     known |-> [c \in 0..(rows * cols) |-> FALSE],
     revealed |-> {}, unrevealed |-> 1..(rows * cols), flagged |-> {}]

\* Board.get_neighbour_cells: the cells of this board's grid around the
\* coordinates of cell c.
Around(b, r, k) ==
    {p[1] * b.cols + p[2] + 1 :
        p \in {q \in (Max(0, r - 1)..(Min(b.rows, r + 2) - 1))
                     \X (Max(0, k - 1)..(Min(b.cols, k + 2) - 1)) :
                 q[1] # r \/ q[2] # k}}
get_neighbour_cells(b, c) == Around(b, RowOf(b, c), ColOf(b, c))

\* random.sample(cells, n): the possible samples; none when n is negative or
\* larger than the population (sample raises ValueError).
Samples(cells, n) == {S \in SUBSET cells : Cardinality(S) = n}

\* The cells place_mines may alter: the grid cells inside the perimeter.
PerimeterCells(b, perimeter) == {c \in Own(b) : c \in perimeter}

\* A placement that keeps the mines the perimeter holds.
ClearNothing(b, perimeter) == b

\* A clearing that leaves the counters around the mines as they were.
ClearCellsOnly(b, cleared) ==
    [b EXCEPT
        !.is_mine = [c \in Ids(b) |-> IF c \in cleared THEN FALSE ELSE b.is_mine[c]]]

\* Board.place_mines, lines 105-109: clear the mines inside the perimeter.
ClearCells(b, cleared) ==
    [b EXCEPT
        !.is_mine = [c \in Ids(b) |-> IF c \in cleared THEN FALSE ELSE b.is_mine[c]],
        !.mines = [c \in Ids(b) |->
            IF c = Foreign THEN b.mines[c]
            ELSE b.mines[c] - Cardinality(get_neighbour_cells(b, c) \cap cleared)]]
ClearMines(b, perimeter) ==
    ClearCells(b, {c \in PerimeterCells(b, perimeter) : b.is_mine[c]})

\* Board.place_mines, lines 111-116: put a mine on every cell of the sample.
\* A cell's counter moves once per neighbour in the sample.
SetMines(b, S) ==
    [b EXCEPT
        !.is_mine = [c \in Ids(b) |-> IF c \in S THEN TRUE ELSE b.is_mine[c]],
        !.mines = [c \in Ids(b) |->
            IF c = Foreign THEN b.mines[c]
            ELSE b.mines[c] + Cardinality(get_neighbour_cells(b, c) \cap S)]]

\* A placement that leaves the perimeter's old mines where they are.
PlaceWithoutClearing(b, perimeter, S) == SetMines(b, S)

\* Board.place_mines with the sample S drawn.
place_mines(b, perimeter, S) == SetMines(ClearMines(b, perimeter), S)

\* Whether sample() accepts the request.
CanSample(b, perimeter, n) ==
    n >= 0 /\ n <= Cardinality(PerimeterCells(b, perimeter))

RECURSIVE Ascending(_)
\* The numbers of S in ascending order: the order in which the model walks a
\* set when the order makes no difference to the result.
Ascending(S) ==
    IF S = {} THEN <<>>
    ELSE <<CHOOSE m \in S : \A y \in S : m <= y>>
         \o Ascending(S \ {CHOOSE m \in S : \A y \in S : m <= y})

\* Cell.reveal and the two set updates of Board.reveal_cell, lines 119-121.
MarkRevealed(b, c) ==
    [b EXCEPT !.known[c] = TRUE, !.c_revealed[c] = TRUE,
              !.revealed = @ \cup {c}, !.unrevealed = @ \ {c}]

\* Board.reveal_cell: reveal c, and when its counter is 0 reveal, one after
\* the other, each neighbour that is still not revealed when its turn comes.
RECURSIVE reveal_cell(_, _)
RECURSIVE RevealNeighbours(_, _)
\* The flood without its recursion: a neighbour is marked and no more.
RevealNeighbourOnly(b, n) == IF b.c_revealed[n] THEN b ELSE MarkRevealed(b, n)
RevealNeighbour(b, n) == IF b.c_revealed[n] THEN b ELSE reveal_cell(b, n)
RevealNeighbours(b, todo) ==
    IF todo = <<>> THEN b
    ELSE RevealNeighbours(RevealNeighbour(b, Head(todo)), Tail(todo))
\* The flood without the test of the counter.
RevealFromAny(b, c) == RevealNeighbours(b, Ascending(get_neighbour_cells(b, c)))
RevealFrom(b, c) ==
    IF b.mines[c] = 0
    THEN RevealNeighbours(b, Ascending(get_neighbour_cells(b, c)))
    ELSE b
reveal_cell(b, c) == RevealFrom(MarkRevealed(b, c), c)

\* MappedBoard.reveal_cell.expand: the same marking; the counter of the cell
\* is tested once per neighbour (the trigger queue is input mapping and is
\* not part of the board state modelled here).
RECURSIVE expand(_, _)
RECURSIVE ExpandNeighbours(_, _, _)
ExpandNeighbour(b, c, n) ==
    IF ~b.c_revealed[n] /\ b.mines[c] = 0 THEN expand(b, n) ELSE b
ExpandNeighbours(b, c, todo) ==
    IF todo = <<>> THEN b
    ELSE ExpandNeighbours(ExpandNeighbour(b, c, Head(todo)), c, Tail(todo))
ExpandFrom(b, c) == ExpandNeighbours(b, c, Ascending(get_neighbour_cells(b, c)))
expand(b, c) == ExpandFrom(MarkRevealed(b, c), c)

\* hide_all that empties the revealed set and leaves the cells' own marks.
HideAllSetsOnly(b) ==
    [b EXCEPT !.unrevealed = @ \cup b.revealed, !.revealed = {}]

\* Board.hide_all.
hide_all(b) ==
    [b EXCEPT
        !.known = [c \in Ids(b) |-> IF c \in b.revealed THEN FALSE ELSE b.known[c]],
        !.c_revealed = [c \in Ids(b) |-> IF c \in b.revealed THEN FALSE ELSE b.c_revealed[c]],
        !.unrevealed = @ \cup b.revealed,
        !.revealed = {}]

\* Board.reveal_all.
reveal_all(b) ==
    [b EXCEPT
        !.known = [c \in Ids(b) |-> IF c \in b.unrevealed THEN TRUE ELSE b.known[c]],
        !.c_revealed = [c \in Ids(b) |-> IF c \in b.unrevealed THEN TRUE ELSE b.c_revealed[c]],
        !.revealed = @ \cup b.unrevealed,
        !.unrevealed = {}]

\* Board.flag_cell.
flag_cell(b, c) ==
    [b EXCEPT
        !.known[c] = TRUE, !.c_flagged[c] = TRUE,
        !.flagged = @ \cup {c},
        !.unflagged = @ - 1,
        !.flags = [x \in Ids(b) |->
            IF x \in get_neighbour_cells(b, c) THEN b.flags[x] + 1 ELSE b.flags[x]]]

\* Board.unflag_cell.
unflag_cell(b, c) ==
    [b EXCEPT
        !.known[c] = FALSE, !.c_flagged[c] = FALSE,
        !.flags = [x \in Ids(b) |->
            IF x \in get_neighbour_cells(b, c) THEN b.flags[x] - 1 ELSE b.flags[x]],
        !.unflagged = @ + 1,
        !.flagged = @ \ {c}]

\* Board.unflag_all: the flagged set is only read while it is walked.
unflag_all(b) ==
    [b EXCEPT
        !.known = [c \in Ids(b) |-> IF c \in b.flagged THEN FALSE ELSE b.known[c]],
        !.c_flagged = [c \in Ids(b) |-> IF c \in b.flagged THEN FALSE ELSE b.c_flagged[c]],
        !.flags = [x \in Ids(b) |->
            b.flags[x] - Cardinality({c \in b.flagged : x \in get_neighbour_cells(b, c)})],
        !.unflagged = @ + Cardinality(b.flagged),
        !.flagged = {}]

\* MappedBoard.unflag_all walks self.flagged while unflag_cell discards from
\* it: the first cell the walk yields is unflagged, then the set iterator
\* finds the size changed and raises RuntimeError. The results are one per
\* cell the walk may yield first; with no flag the loop body never runs.
MappedUnflagAllRaises(b) == b.flagged # {}
MappedUnflagAllResults(b) ==
    IF b.flagged = {} THEN {b} ELSE {unflag_cell(b, c) : c \in b.flagged}

\* Board.reset on a plain Board.
reset(b) == unflag_all(hide_all(b))

\* Board.reset on a MappedBoard: hide_all, then the overriding unflag_all.
MappedResetRaises(b) == MappedUnflagAllRaises(hide_all(b))
MappedResetResults(b) == MappedUnflagAllResults(hide_all(b))

\* Board.check_win.
check_win(b) == \A c \in b.unrevealed : b.is_mine[c]

(***************************************************************************)
(* Solver                                                                  *)
(***************************************************************************)

RECURSIVE SumMines(_, _)
\* sum(cluster.mines for cluster in ...) over the clusters numbered in the
\* sequence ids.
SumMines(cl, ids) ==
    IF ids = <<>> THEN 0 ELSE cl[Head(ids)].mines + SumMines(cl, Tail(ids))

\* The cells of the clusters numbered in S.
UnionCells(cl, S) == UNION {cl[j].cells : j \in S}

SeqRange(s) == {s[i] : i \in 1..Len(s)}

\* An order in which a Python set is walked: a set of objects hashed by
\* identity has no order the code fixes. The model walks by ascending or by
\* descending number.
IterOrders == {"ascending", "descending"}

RECURSIVE Descending(_)
Descending(S) ==
    IF S = {} THEN <<>>
    ELSE <<CHOOSE m \in S : \A y \in S : m >= y>>
         \o Descending(S \ {CHOOSE m \in S : \A y \in S : m >= y})

\* The numbers of S as the sequence the walk yields.
InOrder(S, order) == IF order = "ascending" THEN Ascending(S) ELSE Descending(S)

\* solver.py line 58 and lines 96-98: the neighbours that are not known.
UnknownNeighbours(b, c) == {n \in get_neighbour_cells(b, c) : ~b.known[n]}

\* solver.py lines 56-62: the cluster of each revealed cell that has an
\* unknown neighbour, in the order the walk of board.revealed yields them.
ClustersOf(b, owners) ==
    [i \in 1..Len(owners) |->
        [cells |-> UnknownNeighbours(b, owners[i]),
         mines |-> b.mines[owners[i]] - b.flags[owners[i]]]]
NaiveClusters(b, order) ==
    ClustersOf(b, InOrder({c \in b.revealed : UnknownNeighbours(b, c) # {}}, order))

\* The solver's working state in a round: the Cluster objects by number (cl),
\* self.clusters as the numbers in list order (live), to_reveal, to_flag,
\* changes, and every (cells, mines) a cluster had at some moment (seen).
StartState(cl0) ==
    [cl |-> cl0, live |-> [i \in 1..Len(cl0) |-> i], to_reveal |-> {},
     to_flag |-> {}, changes |-> FALSE, seen |-> SeqRange(cl0)]

\* A subtraction that takes the cells and leaves the mine count.
ShrunkCellsOnly(c, n) == [cells |-> c.cells \ n.cells, mines |-> c.mines]

\* solver.py lines 83-85: the neighbour cluster is taken out of the cluster.
Shrunk(c, n) == [cells |-> c.cells \ n.cells, mines |-> c.mines - n.mines]
PutCluster(st, id, c) ==
    [st EXCEPT !.cl[id] = c, !.changes = TRUE, !.seen = @ \cup {c}]

\* solver.py line 82: a strict subset, as the clusters are at that moment.
SubtractOne(st, id, j) ==
    IF st.cl[j].cells # st.cl[id].cells /\ st.cl[j].cells \subseteq st.cl[id].cells
    THEN PutCluster(st, id, Shrunk(st.cl[id], st.cl[j]))
    ELSE st

RECURSIVE SubtractNeighbours(_, _, _)
\* solver.py lines 81-85: the walk of the neighbour clusters.
SubtractNeighbours(st, id, todo) ==
    IF todo = <<>> THEN st
    ELSE SubtractNeighbours(SubtractOne(st, id, Head(todo)), id, Tail(todo))

\* solver.py lines 87-90.
KeepCluster(st, id) ==
    IF st.cl[id].cells # {} THEN [st EXCEPT !.live = Append(@, id)] ELSE st

\* The walk of one cluster without the branch of a cluster that holds no
\* mine: such a cluster is kept and nothing is revealed for it.
RefactorOneNoSafe(st, id, old, snap, order) ==
    IF st.cl[id].mines = Cardinality(st.cl[id].cells)
    THEN [st EXCEPT !.to_flag = @ \cup st.cl[id].cells]
    ELSE KeepCluster(
             SubtractNeighbours(st, id,
                 InOrder({j \in SeqRange(old) :
                             snap[j].cells \cap st.cl[id].cells # {}}, order)),
             id)

\* solver.py lines 73-90 for one cluster of the list. old is the list at the
\* start of the walk and snap the clusters as they were then: cluster_map was
\* built from them, so the neighbour clusters are those of old whose cells,
\* as indexed, meet the cluster's cells. mine_perc is mines / len(cells).
RefactorOne(st, id, old, snap, order) ==
    IF st.cl[id].mines = 0
    THEN [st EXCEPT !.to_reveal = @ \cup st.cl[id].cells]
    ELSE IF st.cl[id].mines = Cardinality(st.cl[id].cells)
    THEN [st EXCEPT !.to_flag = @ \cup st.cl[id].cells]
    ELSE KeepCluster(
             SubtractNeighbours(st, id,
                 InOrder({j \in SeqRange(old) :
                             snap[j].cells \cap st.cl[id].cells # {}}, order)),
             id)

RECURSIVE RefactorPass(_, _, _, _, _)
\* solver.py lines 72-90: one walk of self.clusters.
RefactorPass(st, old, snap, i, order) ==
    IF i > Len(old) THEN st
    ELSE RefactorPass(RefactorOne(st, old[i], old, snap, order),
                      old, snap, i + 1, order)

RECURSIVE Refactor(_, _)
\* solver.py lines 67-93: walk until a walk changes nothing.
RefactorAgain(r, order) == IF r.changes THEN Refactor(r, order) ELSE r
Refactor(st, order) ==
    RefactorAgain(RefactorPass([st EXCEPT !.live = <<>>, !.changes = FALSE],
                               st.live, st.cl, 1, order), order)

\* solver.py lines 113-117: the combinations of the clusters numbered in nc
\* that have no cell in common, pair by pair.
DisjointCombinations(cl, nc) ==
    {comb \in SUBSET nc :
        /\ comb # {}
        /\ \A i \in comb : \A j \in comb :
              i # j => cl[i].cells \cap cl[j].cells = {}}

\* solver.py lines 99-101: the clusters that hold an unknown neighbour of c.
TouchingClusters(b, cl, live, c) ==
    {j \in live : cl[j].cells \cap UnknownNeighbours(b, c) # {}}

\* solver.py lines 95-117: each revealed cell that has unknown neighbours
\* with each combination tried for it.
CombinationPairs(b, cl, live) ==
    UNION {{<<c, comb>> : comb \in DisjointCombinations(cl, TouchingClusters(b, cl, live, c))} :
              c \in {x \in b.revealed : UnknownNeighbours(b, x) # {}}}

\* solver.py lines 125-130: U the unknown neighbours, cells and short the
\* combination's cells and what the cell needs beyond the combination's mines.
FlagRule(U, cells, short) ==
    IF short > 0 /\ Cardinality(U \ cells) = short THEN U \ cells ELSE {}

\* solver.py lines 134-138: the elif of the same test.
RevealRule(U, cells, short) ==
    IF short > 0 /\ Cardinality(U \ cells) = short THEN {}
    ELSE IF cells # U /\ cells \subseteq U /\ short = 0 THEN U \ cells
    ELSE {}

Short(b, cl, c, comb) == b.mines[c] - b.flags[c] - SumMines(cl, Ascending(comb))

\* solver.py lines 95-138: the combination pass.
CombineOver(b, cl, pairs) ==
    [to_flag |-> UNION {FlagRule(UnknownNeighbours(b, p[1]), UnionCells(cl, p[2]),
                                 Short(b, cl, p[1], p[2])) : p \in pairs},
     to_reveal |-> UNION {RevealRule(UnknownNeighbours(b, p[1]), UnionCells(cl, p[2]),
                                     Short(b, cl, p[1], p[2])) : p \in pairs}]
Combine(b, cl, live) == CombineOver(b, cl, CombinationPairs(b, cl, live))

\* The final checks without the return of line 156: the clusters account
\* for every mine and the round goes on with whatever lies outside them.
FinalChecksNoReturn(b, unknown_cells, sum, outside) ==
    IF unknown_cells = {}
    THEN [kind |-> "solved", to_reveal |-> {}, to_flag |-> {}]
    ELSE IF b.unflagged = 0
    THEN [kind |-> "all_safe", to_reveal |-> unknown_cells, to_flag |-> {}]
    ELSE IF Cardinality(unknown_cells) = b.unflagged
    THEN [kind |-> "all_mines", to_reveal |-> {}, to_flag |-> unknown_cells]
    ELSE IF sum = b.unflagged
    THEN [kind |-> "outside", to_reveal |-> outside, to_flag |-> {}]
    ELSE [kind |-> "stalled", to_reveal |-> {}, to_flag |-> {}]

\* solver.py lines 142-158: the checks on the number of unflagged mines, made
\* when the two passes found nothing. kind names the branch taken.
FinalChecksOn(b, unknown_cells, sum, outside) ==
    IF unknown_cells = {}
    THEN [kind |-> "solved", to_reveal |-> {}, to_flag |-> {}]
    ELSE IF b.unflagged = 0
    THEN [kind |-> "all_safe", to_reveal |-> unknown_cells, to_flag |-> {}]
    ELSE IF Cardinality(unknown_cells) = b.unflagged
    THEN [kind |-> "all_mines", to_reveal |-> {}, to_flag |-> unknown_cells]
    ELSE IF sum = b.unflagged /\ outside # {}
    THEN [kind |-> "outside", to_reveal |-> outside, to_flag |-> {}]
    ELSE [kind |-> "stalled", to_reveal |-> {}, to_flag |-> {}]
FinalChecks(b, cl, live) ==
    FinalChecksOn(b, b.unrevealed \ b.flagged, SumMines(cl, live),
                  (b.unrevealed \ b.flagged) \ UnionCells(cl, SeqRange(live)))

\* solver.py lines 140-158: what the round decides. tr and tf are what the
\* two passes found, fc what the final checks find.
Decision(rf, tr, tf, fc) ==
    IF tr # {} \/ tf # {}
    THEN [ret |-> TRUE, kind |-> "tiles", to_reveal |-> tr, to_flag |-> tf,
          clusters |-> [i \in 1..Len(rf.live) |-> rf.cl[rf.live[i]]], seen |-> rf.seen]
    ELSE [ret |-> fc.kind \in {"all_safe", "all_mines", "outside"},
          kind |-> fc.kind, to_reveal |-> fc.to_reveal, to_flag |-> fc.to_flag,
          clusters |-> [i \in 1..Len(rf.live) |-> rf.cl[rf.live[i]]], seen |-> rf.seen]
DecideWith(b, rf, cb) ==
    Decision(rf, rf.to_reveal \cup cb.to_reveal, rf.to_flag \cup cb.to_flag,
             FinalChecks(b, rf.cl, rf.live))
Decide(b, rf) == DecideWith(b, rf, Combine(b, rf.cl, SeqRange(rf.live)))

\* solver.py lines 50-158: what one round of propagate_known_values decides;
\* order is the order of the walks of this round.
Deduce(b, order) == Decide(b, Refactor(StartState(NaiveClusters(b, order)), order))

RECURSIVE RevealEach(_, _)
\* solver.py lines 160-161 on a plain Board: board.reveal_cell on every cell
\* of to_reveal.
RevealEach(b, todo) ==
    IF todo = <<>> THEN b ELSE RevealEach(reveal_cell(b, Head(todo)), Tail(todo))

RECURSIVE ExpandEach(_, _)
\* solver.py lines 160-161 on a MappedBoard whose start cell is chosen:
\* reveal_cell is expand (mapper.py line 123).
ExpandEach(b, todo) ==
    IF todo = <<>> THEN b ELSE ExpandEach(expand(b, Head(todo)), Tail(todo))

\* A round that applies no flag.
FlagNone(b, todo) == b

RECURSIVE FlagEach(_, _)
\* solver.py lines 163-164: board.flag_cell on every cell of to_flag.
FlagEach(b, todo) ==
    IF todo = <<>> THEN b ELSE FlagEach(flag_cell(b, Head(todo)), Tail(todo))

\* Solver.propagate_known_values, lines 160-166: the board after the round
\* that decided d; m tells a MappedBoard from a plain Board.
ApplyRound(b, d, m) ==
    IF ~d.ret THEN b
    ELSE IF m THEN FlagEach(ExpandEach(b, Ascending(d.to_reveal)), Ascending(d.to_flag))
    ELSE FlagEach(RevealEach(b, Ascending(d.to_reveal)), Ascending(d.to_flag))

RECURSIVE solve(_, _, _)
\* Solver.solve: rounds until one returns False, then check_win. The result
\* is the final board and the value returned.
SolveOn(b, d, order, m) ==
    IF d.ret THEN solve(ApplyRound(b, d, m), order, m)
    ELSE [board |-> b, won |-> check_win(b), clusters |-> d.clusters]
solve(b, order, m) == SolveOn(b, Deduce(b, order), order, m)

(***************************************************************************)
(* Analyzer.analyze                                                        *)
(***************************************************************************)

\* What a step that is no propagation round leaves in last.
Step(op) ==
    [op |-> op, cell |-> None, ret |-> FALSE, kind |-> "none", to_reveal |-> {},
     to_flag |-> {}, seen |-> {}, trues |-> 0, hidden0 |-> 0]

\* What a call made on cell c leaves in last.
Call(op, c) == [Step(op) EXCEPT !.cell = c]

\* The hidden unflagged cells of the grid.
HiddenCells(b) == {c \in Own(b) : ~b.c_revealed[c] /\ ~b.c_flagged[c]}

\* What a propagation round leaves in last: the decision d, the number of
\* rounds that returned True since the board was last changed from outside
\* the solver, and the number of hidden unflagged cells there were then.
Round(b, d) ==
    [op |-> "propagate", cell |-> None, ret |-> d.ret, kind |-> d.kind,
     to_reveal |-> d.to_reveal, to_flag |-> d.to_flag, seen |-> d.seen,
     trues |-> (IF last.op = "propagate" THEN last.trues ELSE 0)
               + (IF d.ret THEN 1 ELSE 0),
     hidden0 |-> IF last.op = "propagate" THEN last.hidden0
                 ELSE Cardinality(HiddenCells(b))]

\* A perimeter that leaves out the start cell alone.
StartPerimeterCellOnly(b, init) == b.unrevealed \ {init}

\* analyzer.py lines 52 and 137-139: every unrevealed cell but the start
\* cell and the cells around it. init is the Cell object kept in init_cell.
StartPerimeter(b, init) == (b.unrevealed \ {init}) \ get_neighbour_cells(b, init)

\* analyzer.py lines 102-107 (mapper.py lines 65-70).
UnknownCells(b) == b.unrevealed \ b.flagged
NeighbourCells(b) == UNION {get_neighbour_cells(b, c) : c \in UnknownCells(b)}

\* The three remedies of a stall, as the if / elif / else tells them apart.
MineWalled(b) == NeighbourCells(b) \cap b.revealed = {}
Unsolvable(b) == ~MineWalled(b) /\ Cardinality(UnknownCells(b)) = b.unflagged + 1
Rearrangeable(b) == ~MineWalled(b) /\ ~Unsolvable(b)

\* analyzer.py lines 111-113 (mapper.py lines 74-76): the flagged cells
\* rand_choice draws from.
WallFlags(b) == {c \in NeighbourCells(b) : b.c_flagged[c]}

\* analyzer.py lines 115-117 (mapper.py lines 78-80): the mine of the cell is
\* taken away and the counter of every cell around it goes down by one.
RemoveMine(b, c) ==
    [b EXCEPT !.is_mine[c] = FALSE,
              !.mines = [x \in Ids(b) |->
                  IF x \in get_neighbour_cells(b, c) THEN b.mines[x] - 1 ELSE b.mines[x]]]

\* analyzer.py lines 135 and 166: a new Board; init_cell still refers to the
\* Cell object it was given at line 50, which no grid of a later board holds.
\* old is the board that object is read from.
Rebuild(old, init, mines) ==
    [NewBoard(old.rows, old.cols, mines) EXCEPT
        !.is_mine[Foreign] = old.is_mine[init],
        !.mines[Foreign] = old.mines[init],
        !.flags[Foreign] = old.flags[init],
        !.c_revealed[Foreign] = old.c_revealed[init],
        !.c_flagged[Foreign] = old.c_flagged[init],
        !.known[Foreign] = old.known[init]]

\* The method ends with the exception e; b is the board it leaves.
Raise(e, b, op) ==
    /\ board' = b
    /\ err' = e
    /\ pc' = "raised"
    /\ last' = Step(op)
    /\ UNCHANGED <<mapped, no_guessing, total, init_cell, clusters, ops>>

\* A step of analyze that leaves b and goes on to the propagation loop.
Continue(b, op) ==
    /\ board' = b
    /\ pc' = "an_propagate"
    /\ last' = Step(op)
    /\ UNCHANGED <<mapped, no_guessing, total, init_cell, err, clusters, ops>>

\* The placement with a sample cut down to the cells there are.
PlaceAndRevealClipped(b, per, op) ==
    \E S \in Samples(PerimeterCells(b, per),
                      Min(b.unflagged, Cardinality(PerimeterCells(b, per)))) :
        Continue(reveal_cell(place_mines(b, per, S), init_cell), op)

\* analyzer.py lines 51-55: place_mines on the perimeter per, then
\* reveal_cell(init_cell). sample raises after the mines were cleared.
PlaceAndReveal(b, per, op) ==
    IF CanSample(b, per, b.unflagged)
    THEN \E S \in Samples(PerimeterCells(b, per), b.unflagged) :
             Continue(reveal_cell(place_mines(b, per, S), init_cell), op)
    ELSE Raise("ValueError", ClearMines(b, per), op)

\* analyzer.py lines 47-56: the board is built, the mines are placed outside
\* the start cell's neighbourhood, the start cell is revealed.
AnStart ==
    /\ pc = "an_start"
    /\ PlaceAndReveal(board, StartPerimeter(board, init_cell), "start")

\* One call of solver.propagate_known_values that decides d; next is where
\* the caller goes when the call returns False.
PropagateRound(d, here, next) ==
    /\ board' = ApplyRound(board, d, mapped)
    /\ clusters' = d.clusters
    /\ last' = Round(board, d)
    /\ pc' = IF d.ret THEN here ELSE next
    /\ UNCHANGED <<mapped, no_guessing, total, init_cell, err, ops>>

\* analyzer.py line 77: one call of solver.propagate_known_values.
AnPropagate ==
    /\ pc = "an_propagate"
    /\ \E order \in IterOrders : \E d \in {Deduce(board, order)} :
           PropagateRound(d, "an_propagate", "an_stalled")

\* analyzer.py lines 93-98: the board is won, the generation loop is left.
AnWon ==
    /\ pc = "an_stalled"
    /\ check_win(board)
    /\ pc' = "an_left"
    /\ last' = Step("won")
    /\ UNCHANGED <<board, mapped, no_guessing, total, init_cell, err, clusters, ops>>

\* analyzer.py lines 118-128: b is the board after the flag and its mine
\* were removed, per the hidden cells taken before.
Relocate(b, per) ==
    IF CanSample(b, per, b.unflagged)
    THEN \E S \in Samples(PerimeterCells(b, per), b.unflagged) :
             Continue(reveal_cell(reset(place_mines(b, per, S)), init_cell), "wall")
    ELSE Raise("ValueError", ClearMines(b, per), "wall")

\* analyzer.py lines 108-128: the hidden cells are walled in by flags. One
\* flag next to them is removed with its mine, the mines of the hidden cells
\* are placed again, the board is reset and the start cell revealed.
\* rand_choice raises IndexError on an empty list.
AnWall ==
    /\ pc = "an_stalled"
    /\ ~check_win(board)
    /\ no_guessing
    /\ MineWalled(board)
    /\ IF WallFlags(board) = {}
       THEN Raise("IndexError", board, "wall")
       ELSE \E cell \in WallFlags(board) :
                Relocate(RemoveMine(unflag_cell(board, cell), cell), UnknownCells(board))

\* analyzer.py lines 136-143 and 167-174 on the new board nb: init_cell is
\* from now on an object outside the grid.
RegenerateOn(nb, per, op) ==
    IF CanSample(nb, per, nb.unflagged)
    THEN /\ \E S \in Samples(PerimeterCells(nb, per), nb.unflagged) :
                board' = reveal_cell(place_mines(nb, per, S), Foreign)
         /\ init_cell' = Foreign
         /\ clusters' = <<>>
         /\ pc' = "an_propagate"
         /\ last' = Step(op)
         /\ UNCHANGED <<mapped, no_guessing, total, err, ops>>
    ELSE Raise("ValueError", ClearMines(nb, per), op)

\* analyzer.py lines 135-143 and 166-174: a new board and a new solver; old
\* is the board that is dropped.
Regenerate(old, op) ==
    \E nb \in {Rebuild(old, init_cell, total)} :
        RegenerateOn(nb, StartPerimeter(nb, Foreign), op)

\* analyzer.py lines 133-145: one hidden cell more than mines left.
AnRegen ==
    /\ pc = "an_stalled"
    /\ ~check_win(board)
    /\ no_guessing
    /\ Unsolvable(board)
    /\ Regenerate(board, "regen")

\* analyzer.py lines 153-155: place_mines on the hidden unflagged cells.
Rearrange(b, per) ==
    IF CanSample(b, per, b.unflagged)
    THEN \E S \in Samples(PerimeterCells(b, per), b.unflagged) :
             Continue(place_mines(b, per, S), "rearrange")
    ELSE Raise("ValueError", ClearMines(b, per), "rearrange")

\* analyzer.py lines 146-156: the mines of the hidden unflagged cells are
\* placed again.
AnRearrange ==
    /\ pc = "an_stalled"
    /\ ~check_win(board)
    /\ no_guessing
    /\ Rearrangeable(board)
    /\ Rearrange(board, UnknownCells(board))

RECURSIVE BestCluster(_, _, _)
\* solver.py lines 170-177: the first cluster of the list with the lowest
\* mines / len(cells); a / b < c / d is a * d < c * b for positive b and d.
BestCluster(cls, i, best) ==
    IF i > Len(cls) THEN best
    ELSE BestCluster(cls, i + 1,
             IF cls[i].mines * Cardinality(cls[best].cells)
                    < cls[best].mines * Cardinality(cls[i].cells)
             THEN i ELSE best)

\* solver.py lines 171-175: the hidden unflagged cells in no cluster, and
\* the unflagged mines the clusters do not account for.
UnclusteredCells(b, cls) == UnknownCells(b) \ UnionCells(cls, 1..Len(cls))
UnclusteredMines(b, cls) == b.unflagged - SumMines(cls, [i \in 1..Len(cls) |-> i])

\* Solver.make_guess: the exception it raises, or "none".
GuessError(b, cls) ==
    IF cls = <<>> THEN "IndexError"
    ELSE IF UnclusteredCells(b, cls) = {} THEN "ZeroDivisionError"
    ELSE "none"

\* Solver.make_guess, lines 179-182: the cells rand_choice draws from.
GuessFrom(best, cells, mines) ==
    IF best.mines * Cardinality(cells) > mines * Cardinality(best.cells)
    THEN cells
    ELSE best.cells
make_guess(b, cls) ==
    GuessFrom(cls[BestCluster(cls, 1, 1)], UnclusteredCells(b, cls),
              UnclusteredMines(b, cls))

\* analyzer.py lines 161-175: b is the board after the guess was revealed.
Guessed(b, best_guess) ==
    IF b.is_mine[best_guess]
    THEN Regenerate(b, "guess_mine")
    ELSE Continue(b, "guess")

\* analyzer.py lines 157-175: guessing is allowed. The guess is revealed; a
\* guess that is a mine makes a new board.
AnGuess ==
    /\ pc = "an_stalled"
    /\ ~check_win(board)
    /\ ~no_guessing
    /\ IF GuessError(board, clusters) # "none"
       THEN Raise(GuessError(board, clusters), board, "guess")
       ELSE \E best_guess \in make_guess(board, clusters) :
              \E b1 \in {reveal_cell(board, best_guess)} : Guessed(b1, best_guess)

\* analyzer.py lines 181-182: after the loop the board is reset and the
\* start cell revealed again.
AnResolve ==
    /\ pc = "an_left"
    /\ board' = reveal_cell(reset(board), init_cell)
    /\ pc' = "an_verify"
    /\ last' = Step("resolve")
    /\ UNCHANGED <<mapped, no_guessing, total, init_cell, err, clusters, ops>>

\* analyzer.py lines 185-201: rounds until one returns False.
AnVerify ==
    /\ pc = "an_verify"
    /\ \E order \in IterOrders : \E d \in {Deduce(board, order)} :
           PropagateRound(d, "an_verify", "an_finished")

\* The grids of the model.
Shapes == (1..MaxRows) \X (1..MaxCols)

\* Analyzer.__init__ and analyzer.py lines 47-50: the state in which analyze
\* has built its Board and taken board[0][0] as init_cell.
InitAn ==
    /\ \E sh \in Shapes : \E m \in 0..MaxMines :
           /\ board = NewBoard(sh[1], sh[2], m)
           /\ total = m
    /\ mapped = FALSE
    /\ no_guessing \in BOOLEAN
    /\ init_cell = 1
    /\ pc = "an_start"
    /\ err = "none"
    /\ clusters = <<>>
    /\ last = Step("init")
    /\ ops = 0

NextAn ==
    \/ AnStart
    \/ AnPropagate
    \/ AnWon
    \/ AnWall
    \/ AnRegen
    \/ AnRearrange
    \/ AnGuess
    \/ AnResolve
    \/ AnVerify

SpecAn == InitAn /\ [][NextAn]_vars

(***************************************************************************)
(* Calls made on a Board or a MappedBoard from outside                     *)
(***************************************************************************)

\* A call that returns and leaves b.
Done(b, op, c) ==
    /\ board' = b
    /\ pc' = "idle"
    /\ last' = Call(op, c)
    /\ ops' = ops + 1
    /\ UNCHANGED <<mapped, no_guessing, total, init_cell, err, clusters>>

\* Board.place_mines as every caller calls it: on the unrevealed cells
\* outside the neighbourhood of a start cell, with board.unflagged mines.
PlaceOn(b, per, start) ==
    IF CanSample(b, per, b.unflagged)
    THEN /\ \E S \in Samples(PerimeterCells(b, per), b.unflagged) :
                board' = place_mines(b, per, S)
         /\ pc' = "idle"
         /\ last' = Call("place", start)
         /\ UNCHANGED <<mapped, no_guessing, total, init_cell, err, clusters, ops>>
    ELSE Raise("ValueError", ClearMines(b, per), "place")

\* The first call made on a plain Board places its mines.
Place ==
    /\ pc = "idle"
    /\ ~mapped
    /\ last.op = "init"
    /\ \E start \in Own(board) : PlaceOn(board, StartPerimeter(board, start), start)

\* mapper.py lines 42-54: the first reveal_cell of a MappedBoard keeps the
\* cell in init_cell, places the mines and expands the cell; lines 56-117
\* follow when no_guessing is set.
FirstRevealOn(b, per, c) ==
    IF CanSample(b, per, b.unflagged)
    THEN /\ \E S \in Samples(PerimeterCells(b, per), b.unflagged) :
                board' = expand(place_mines(b, per, S), c)
         /\ init_cell' = c
         /\ pc' = IF no_guessing THEN "mb_propagate" ELSE "idle"
         /\ last' = Call("first_reveal", c)
         /\ ops' = ops + 1
         /\ UNCHANGED <<mapped, no_guessing, total, err, clusters>>
    ELSE /\ board' = ClearMines(b, per)
         /\ init_cell' = c
         /\ err' = "ValueError"
         /\ pc' = "raised"
         /\ last' = Call("first_reveal", c)
         /\ UNCHANGED <<mapped, no_guessing, total, clusters, ops>>

FirstReveal ==
    /\ pc = "idle"
    /\ mapped
    /\ init_cell = None
    /\ ops < MaxOps
    /\ \E c \in Own(board) : FirstRevealOn(board, StartPerimeter(board, c), c)

\* Board.reveal_cell, and MappedBoard.reveal_cell line 123 once the start
\* cell is chosen.
Reveal ==
    /\ pc = "idle"
    /\ mapped => init_cell # None
    /\ ops < MaxOps
    /\ \E c \in Own(board) :
           Done(IF mapped THEN expand(board, c) ELSE reveal_cell(board, c), "reveal", c)

\* Board.flag_cell; MappedBoard.flag_cell adds input mapping only.
Flag ==
    /\ pc = "idle"
    /\ ops < MaxOps
    /\ \E c \in Own(board) : Done(flag_cell(board, c), "flag", c)

\* Board.unflag_cell.
Unflag ==
    /\ pc = "idle"
    /\ ops < MaxOps
    /\ \E c \in Own(board) : Done(unflag_cell(board, c), "unflag", c)

\* A method of MappedBoard that ends in its unflag_all, which reads b.
MappedUnflagAll(b, op) ==
    IF MappedUnflagAllRaises(b)
    THEN \E r \in MappedUnflagAllResults(b) : Raise("RuntimeError", r, op)
    ELSE Done(b, op, None)

\* Board.unflag_all and MappedBoard.unflag_all.
UnflagAll ==
    /\ pc = "idle"
    /\ ops < MaxOps
    /\ IF mapped
       THEN MappedUnflagAll(board, "unflag_all")
       ELSE Done(unflag_all(board), "unflag_all", None)

\* Board.reset, which a MappedBoard inherits.
Reset ==
    /\ pc = "idle"
    /\ ops < MaxOps
    /\ IF mapped
       THEN MappedUnflagAll(hide_all(board), "reset")
       ELSE Done(reset(board), "reset", None)

\* Board.hide_all.
HideAll ==
    /\ pc = "idle"
    /\ ops < MaxOps
    /\ Done(hide_all(board), "hide_all", None)

\* Board.reveal_all.
RevealAll ==
    /\ pc = "idle"
    /\ ops < MaxOps
    /\ Done(reveal_all(board), "reveal_all", None)

(***************************************************************************)
(* MappedBoard.reveal_cell, the no-guessing generation (lines 56-117)      *)
(***************************************************************************)

\* A step of the generation that leaves b and calls solver.solve() again.
Again(b, op) ==
    /\ board' = b
    /\ pc' = "mb_propagate"
    /\ last' = Step(op)
    /\ UNCHANGED <<mapped, no_guessing, total, init_cell, err, clusters, ops>>

\* solver.py lines 39-40 inside mapper.py line 59: one round of solve().
MbPropagate ==
    /\ pc = "mb_propagate"
    /\ \E order \in IterOrders : \E d \in {Deduce(board, order)} :
           PropagateRound(d, "mb_propagate", "mb_solved")

\* mapper.py lines 59-63: solve() returned True. reset() runs
\* MappedBoard.unflag_all; when it returns the start cell is expanded and
\* reveal_cell returns.
MbWon ==
    /\ pc = "mb_solved"
    /\ check_win(board)
    /\ IF MappedResetRaises(board)
       THEN \E r \in MappedResetResults(board) : Raise("RuntimeError", r, "generated")
       ELSE /\ board' = expand(hide_all(board), init_cell)
            /\ pc' = "idle"
            /\ last' = Step("generated")
            /\ UNCHANGED <<mapped, no_guessing, total, init_cell, err, clusters, ops>>

\* mapper.py lines 81-91: b is the board after the flag and its mine were
\* removed, per the hidden cells taken before.
MbRelocateOn(b) ==
    IF MappedResetRaises(b)
    THEN \E r \in MappedResetResults(b) : Raise("RuntimeError", r, "wall")
    ELSE Again(expand(hide_all(b), init_cell), "wall")
MbRelocate(b, per) ==
    IF CanSample(b, per, b.unflagged)
    THEN \E S \in Samples(PerimeterCells(b, per), b.unflagged) :
             MbRelocateOn(place_mines(b, per, S))
    ELSE Raise("ValueError", ClearMines(b, per), "wall")

\* mapper.py lines 71-91: the hidden cells are walled in by flags.
MbWall ==
    /\ pc = "mb_solved"
    /\ ~check_win(board)
    /\ MineWalled(board)
    /\ IF WallFlags(board) = {}
       THEN Raise("IndexError", board, "wall")
       ELSE \E rand_flag \in WallFlags(board) :
                MbRelocate(RemoveMine(unflag_cell(board, rand_flag), rand_flag),
                           UnknownCells(board))

\* mapper.py lines 95-98: every mine of an unrevealed cell is taken away,
\* and the counter of each cell around it goes down by one.
ClearUnrevealedMines(b) == ClearCells(b, {c \in b.unrevealed : b.is_mine[c]})

\* mapper.py lines 101-107 on the board b that reset() left.
MbReplace(b, per) ==
    IF CanSample(b, per, b.unflagged)
    THEN \E S \in Samples(PerimeterCells(b, per), b.unflagged) :
             Again(expand(place_mines(b, per, S), init_cell), "regen")
    ELSE Raise("ValueError", ClearMines(b, per), "regen")

\* mapper.py lines 99-107 on the board b whose mines were cleared.
MbRegenOn(b) ==
    IF MappedResetRaises(b)
    THEN \E r \in MappedResetResults(b) : Raise("RuntimeError", r, "regen")
    ELSE \E r \in {hide_all(b)} : MbReplace(r, StartPerimeter(r, init_cell))

\* mapper.py lines 92-107: one hidden cell more than mines left; the same
\* board gets new mines.
MbRegen ==
    /\ pc = "mb_solved"
    /\ ~check_win(board)
    /\ Unsolvable(board)
    /\ MbRegenOn(ClearUnrevealedMines(board))

\* mapper.py lines 108-117: the mines of the hidden unflagged cells are
\* placed again.
MbRearrangeOn(b, per) ==
    IF CanSample(b, per, b.unflagged)
    THEN \E S \in Samples(PerimeterCells(b, per), b.unflagged) :
             Again(place_mines(b, per, S), "rearrange")
    ELSE Raise("ValueError", ClearMines(b, per), "rearrange")
MbRearrange ==
    /\ pc = "mb_solved"
    /\ ~check_win(board)
    /\ Rearrangeable(board)
    /\ MbRearrangeOn(board, UnknownCells(board))

\* Board.__init__ and MappedBoard.__init__: a board just built.
Init ==
    /\ \E sh \in Shapes : \E m \in 0..MaxMines :
           /\ board = NewBoard(sh[1], sh[2], m)
           /\ total = m
    /\ mapped \in BOOLEAN
    /\ no_guessing \in BOOLEAN
    /\ mapped \/ ~no_guessing
    /\ init_cell = None
    /\ pc = "idle"
    /\ err = "none"
    /\ clusters = <<>>
    /\ last = Step("init")
    /\ ops = 0

Next ==
    \/ Place
    \/ FirstReveal
    \/ Reveal
    \/ Flag
    \/ Unflag
    \/ UnflagAll
    \/ Reset
    \/ HideAll
    \/ RevealAll
    \/ MbPropagate
    \/ MbWon
    \/ MbWall
    \/ MbRegen
    \/ MbRearrange

Spec == Init /\ [][Next]_vars

\* Every use of the boards: the calls from outside and Analyzer.analyze.
InitAll == Init \/ InitAn
NextAll == Next \/ NextAn
SpecAll == InitAll /\ [][NextAll]_vars

(***************************************************************************)
(* Properties                                                              *)
(***************************************************************************)

\* The number of neighbours of c that hold a mine now.
LiveMines(b, c) == Cardinality({n \in get_neighbour_cells(b, c) : b.is_mine[n]})

\* Every cell of the grid counts the mines around it.
CountsCorrect(b) == \A c \in Own(b) : b.mines[c] = LiveMines(b, c)

\* The mine layout of the grid.
Layout(b) == {c \in Own(b) : b.is_mine[c]}

\* The board with the layout of b, every cell hidden and unflagged.
Scratch(b) ==
    SetMines(NewBoard(b.rows, b.cols, Cardinality(Layout(b))), Layout(b))

\* The cell of the grid at the coordinates of the start cell.
StartOf(init) == IF init = Foreign THEN 1 ELSE init

\* Solver.solve() on the board b whose start cell alone was revealed returns
\* True and leaves no mine revealed, whatever the order of the walks.
Solves(b) ==
    \A order \in IterOrders : \E r \in {solve(b, order, FALSE)} :
        r.won /\ \A c \in r.board.revealed : ~r.board.is_mine[c]

\* The no-guessing generation has just ended normally.
GenerationFinished ==
    /\ no_guessing
    /\ \/ pc = "an_left"
       \/ mapped /\ pc = "idle" /\ last.op = "generated"

\* C1: whenever the no-guessing generation finishes, the final mine layout
\* is solvable from scratch: with every cell hidden and unflagged and only
\* the start cell revealed, Solver.solve() returns True and reveals no mine.
C1_SolvableFromScratch ==
    GenerationFinished =>
        Solves(reveal_cell(Scratch(board), StartOf(init_cell)))

\* What propagate_known_values may assume of the board it is called on:
\* no revealed mine, every flag on a mine, unflagged the number of mines
\* without a flag, and correct counters.
SoundBoard(b) ==
    /\ \A c \in b.revealed : ~b.is_mine[c]
    /\ \A c \in b.flagged : b.is_mine[c]
    /\ b.unflagged = Cardinality({c \in Own(b) : b.is_mine[c] /\ ~b.c_flagged[c]})
    /\ CountsCorrect(b)

\* C2: in every call of propagate_known_values on a board that meets
\* SoundBoard, every cell the call reveals is not a mine and every cell it
\* flags is a mine.
C2_Soundness ==
    [][(last'.op = "propagate" /\ SoundBoard(board)) =>
          /\ \A c \in board'.revealed \ board.revealed : ~board.is_mine[c]
          /\ \A c \in board'.flagged \ board.flagged : board.is_mine[c]]_vars

C4_LiveCounts ==
    \A c \in board.revealed :
        ~board.is_mine[c] => board.mines[c] = LiveMines(board, c)

\* C4 happens: a repair has moved mines and the start cell was revealed
\* again next to cells that count mines.
C4_Witness ==
    /\ last.op \in {"wall", "rearrange", "regen"}
    /\ pc \in {"mb_propagate", "an_propagate"}
    /\ \E c \in board.revealed : ~board.is_mine[c] /\ board.mines[c] > 0

\* C5: revealed and unrevealed are disjoint, together they are the cells of
\* the board's own grid, and a cell is in revealed iff its revealed
\* attribute is set.
C5_Partition ==
    /\ board.revealed \cap board.unrevealed = {}
    /\ board.revealed \cup board.unrevealed = Own(board)
    /\ \A c \in Own(board) : c \in board.revealed <=> board.c_revealed[c]

\* C6: no cell is revealed and flagged at once, and flagged is a subset of
\* unrevealed.
C6_NeverRevealedAndFlagged ==
    /\ board.flagged \subseteq board.unrevealed
    /\ \A c \in Own(board) : ~(board.c_revealed[c] /\ board.c_flagged[c])

\* C7: unflagged is the configured mine count minus the number of flagged
\* cells.
C7_UnflaggedCounter ==
    board.unflagged = total - Cardinality(board.flagged)

C10_FloodRevealsNoMine ==
    [][(last'.op = "reveal" /\ ~mapped /\ CountsCorrect(board)
            /\ ~board.is_mine[last'.cell]) =>
          \A x \in board'.revealed \ board.revealed : ~board.is_mine[x]]_vars

\* C10 happens: a reveal of a zero-count cell has flooded on a board with
\* correct counters that has a mine.
C10_Witness ==
    /\ last.op = "reveal"
    /\ ~mapped
    /\ CountsCorrect(board)
    /\ Layout(board) # {}
    /\ ~board.is_mine[last.cell]
    /\ board.mines[last.cell] = 0
    /\ get_neighbour_cells(board, last.cell) \subseteq board.revealed

\* The start cells a round trip may use: the cells of the grid without a mine.
SafeStarts(b) == {s \in Own(b) : ~b.is_mine[s]}

\* C11: on a plain Board, after any reveals and flags followed by reset(),
\* reveal_cell(s) of a cell s without a mine reveals exactly the cells that
\* reveal_cell(s) reveals on a fresh board with the same mine layout.
C11_RoundTrip ==
    (~mapped /\ pc = "idle" /\ last.op = "reset") =>
        \A s \in SafeStarts(board) :
            reveal_cell(board, s).revealed = reveal_cell(Scratch(board), s).revealed

\* A reset that follows two calls on a board with mines, where the reveal
\* of some cell floods beyond the cell itself.
C11_Witness ==
    /\ ~mapped /\ pc = "idle" /\ last.op = "reset" /\ ops = MaxOps
    /\ Layout(board) # {}
    /\ \E s \in SafeStarts(board) :
           /\ board.mines[s] = 0
           /\ Cardinality(reveal_cell(board, s).revealed) > 1

\* Every cell of b is hidden and unflagged, and the counters are as on a
\* board that was just built with the configured number of mines.
AllHidden(b) ==
    /\ \A c \in Own(b) : ~b.c_revealed[c] /\ ~b.c_flagged[c] /\ ~b.known[c]
    /\ b.revealed = {} /\ b.flagged = {}
    /\ b.unrevealed = Own(b)
    /\ \A c \in Own(b) : b.flags[c] = 0
    /\ b.unflagged = total

\* C12: Board.reset() on a plain Board leaves every cell hidden and
\* unflagged, board.revealed and board.flagged empty, board.unrevealed the
\* whole grid, every flags counter 0 and board.unflagged the configured
\* mine count, and changes no is_mine and no mines counter.
C12_ResetFrame ==
    [][(~mapped /\ last'.op = "reset") =>
          /\ AllHidden(board')
          /\ board'.is_mine = board.is_mine
          /\ board'.mines = board.mines]_vars

\* place_mines is asked for more mines than the perimeter has cells.
TooMany(b, perimeter) == b.unflagged > Cardinality(PerimeterCells(b, perimeter))

\* C13: place_mines(perimeter, n) with n above the number of cells of the
\* perimeter ends in an error and makes no cell a mine: at the first reveal
\* of a MappedBoard, at the start of analyze, at a placement on a plain
\* Board whatever the start cell, and at a rearrangement.
C13_InsufficientCells ==
    [][(\/ last'.op = "first_reveal"
           /\ TooMany(board, StartPerimeter(board, last'.cell))
        \/ last'.op = "start"
           /\ TooMany(board, StartPerimeter(board, init_cell))
        \/ last'.op = "place"
           /\ \A start \in Own(board) : TooMany(board, StartPerimeter(board, start))
        \/ last'.op = "rearrange"
           /\ TooMany(board, UnknownCells(board)))
       => /\ pc' = "raised"
          /\ err' = "ValueError"
          /\ Layout(board') \subseteq Layout(board)]_vars

\* analyze was started with more mines than there are cells outside the
\* neighbourhood of the start cell, and ended in the error without a mine.
C13_Witness ==
    /\ pc = "raised" /\ err = "ValueError" /\ last.op = "start"
    /\ total > 0
    /\ Layout(board) = {}

\* What place_mines(perimeter, n) promises of the board b2 it leaves from
\* b: n mines among the cells of the perimeter, is_mine as before elsewhere.
Placed(b, b2, perimeter, n) ==
    /\ Cardinality(Layout(b2) \cap PerimeterCells(b, perimeter)) = n
    /\ \A c \in Ids(b) \ PerimeterCells(b, perimeter) : b2.is_mine[c] = b.is_mine[c]

\* C14: after a place_mines(perimeter, n) that succeeded, exactly n cells
\* of the perimeter are mines, whatever mines it held before, and is_mine
\* is unchanged outside the perimeter: at a rearrangement, at the first
\* reveal of a MappedBoard, at the start of analyze and on a plain Board.
C14_ExactlyN ==
    [][pc' # "raised" =>
          /\ last'.op = "rearrange" =>
                 Placed(board, board', UnknownCells(board), board.unflagged)
          /\ last'.op \in {"first_reveal", "place"} =>
                 Placed(board, board', StartPerimeter(board, last'.cell), board.unflagged)
          /\ last'.op = "start" =>
                 Placed(board, board', StartPerimeter(board, init_cell), board.unflagged)]_vars

\* A rearrangement has placed mines among the hidden unflagged cells.
C14_Witness ==
    /\ last.op = "rearrange" /\ pc \in {"an_propagate", "mb_propagate"}
    /\ Layout(board) \cap UnknownCells(board) # {}
    /\ Layout(board) \ UnknownCells(board) # {}

\* C15: reveal_cell(c) on a cell that is already revealed or flagged ends
\* in an error and leaves the board as it was.
C15_RevealGuard ==
    [][(/\ last'.op = "reveal"
        /\ board.c_revealed[last'.cell] \/ board.c_flagged[last'.cell])
       => /\ pc' = "raised"
          /\ board' = board]_vars

\* The number of neighbours of c that are flagged now.
FlaggedAround(b, c) == Cardinality({n \in get_neighbour_cells(b, c) : b.c_flagged[n]})

\* C16: every cell's flags counter is the number of its neighbours that are
\* flagged, in every state that flag_cell, unflag_cell, unflag_all and
\* reset reach.
C16_FlagCounts ==
    \A c \in Own(board) : board.flags[c] = FlaggedAround(board, c)

\* The positions of the program: inside analyze, inside the generation of
\* MappedBoard.reveal_cell, between two calls, and after an exception.
Positions ==
    {"an_start", "an_propagate", "an_stalled", "an_left", "an_verify",
     "an_finished", "mb_propagate", "mb_solved", "idle", "raised"}

\* The program is inside analyze or inside the first reveal_cell of a
\* no-guessing MappedBoard.
Working ==
    pc \in {"an_start", "an_propagate", "an_stalled", "an_left", "an_verify",
            "mb_propagate", "mb_solved"}

\* The program goes from its position inside a method to another position.
MoveOn == Working /\ pc' \in Positions

\* The program as it runs. The code is sequential and waits for nothing, so
\* it does not stay for ever at one position inside a method: every such
\* position has a next step, and the propagation loop, the one step that
\* keeps its position, marks a cell more at each round that returns True.
\* Nothing is assumed of the random choices or of the calls from outside.
FairAll == SpecAll /\ WF_pc(MoveOn)

\* Analyzer.analyze alone, as it runs.
FairAn == SpecAn /\ WF_pc(MoveOn)

\* The program is in the generation: before or inside the loops of
\* analyzer.py lines 74-177 and mapper.py lines 58-117.
Generating ==
    pc \in {"an_start", "an_propagate", "an_stalled", "mb_propagate", "mb_solved"}

\* C17: the no-guessing generation makes a bounded number of repairs and
\* regenerations and then ends, with an error if it has found no board: no
\* run of it stays in the generation for ever.
C17_BoundedRepairs == no_guessing => [](Generating => <>~Generating)

\* The first placement has just succeeded and the start cell is revealed:
\* in analyze, or in the first reveal_cell of a MappedBoard that no other
\* call came before.
Started ==
    \/ pc = "an_propagate" /\ last.op = "start"
    \/ mapped /\ pc = "mb_propagate" /\ last.op = "first_reveal" /\ ops = 1

\* The generation has ended with an exception raised by one of its steps.
GenerationFailed ==
    pc = "raised" /\ last.op \in {"generated", "wall", "regen", "rearrange"}

\* C18: once the first placement has succeeded, the no-guessing generation
\* eventually ends normally, with solve() or check_win() True, without an
\* exception on the way and without a guess.
C18_Converges ==
    no_guessing =>
        [](Started => /\ <>GenerationFinished
                      /\ [](~GenerationFailed)
                      /\ [](last.op \notin {"guess", "guess_mine"}))

\* A board of one row and at least three cells whose only mine is the
\* rightmost cell.
OneRow(b) == b.rows = 1 /\ b.cols >= 3 /\ Layout(b) = {b.cols}

\* C19: on a 1xN board (N >= 3) whose only mine is the rightmost cell, the
\* reveal of the leftmost cell has revealed every cell but the rightmost;
\* the first propagation round flags the rightmost cell and nothing else
\* and reports progress, the next round reports none, and solve() on the
\* board returns True.
C19_OneRow ==
    [][(pc = "an_propagate" /\ last.op = "start" /\ OneRow(board))
       => /\ board.revealed = 1..(board.cols - 1)
          /\ last'.ret
          /\ last'.to_flag = {board.cols}
          /\ last'.to_reveal = {}
          /\ board'.flagged = {board.cols}
          /\ board'.revealed = board.revealed
          /\ \A order \in IterOrders :
                 /\ ~Deduce(board', order).ret
                 /\ solve(board, order, FALSE).won]_vars

\* The second round on the widest such board has reported no progress: the
\* rightmost cell is flagged, the others are revealed, the board is won.
C19_Witness ==
    /\ pc = "an_stalled" /\ last.op = "propagate" /\ ~last.ret
    /\ OneRow(board) /\ board.cols = MaxCols
    /\ board.flagged = {board.cols}
    /\ board.revealed = 1..(board.cols - 1)
    /\ check_win(board)

\* The first reveal_cell of a no-guessing MappedBoard, made before any
\* other call, has ended after solve() returned True: it has returned, or
\* the reset of mapper.py line 61 has raised.
FirstRevealEnded ==
    /\ mapped /\ no_guessing /\ init_cell # None
    /\ ops = 1
    /\ pc \in {"idle", "raised"}
    /\ last.op = "generated"

\* C20: nothing the solver revealed or flagged stays on the player's board:
\* when the first reveal_cell of a no-guessing MappedBoard has ended, no
\* cell is flagged, board.unflagged is the configured mine count, and the
\* revealed cells are the flood region of the start cell under the layout.
C20_NoSpeculation ==
    FirstRevealEnded =>
        /\ board.flagged = {}
        /\ \A c \in Own(board) : ~board.c_flagged[c]
        /\ board.unflagged = total
        /\ board.revealed = expand(Scratch(board), init_cell).revealed

\* C21: unflag_all() on a MappedBoard with one or more flagged cells
\* returns without an error, leaves board.flagged empty and every cell that
\* was flagged unflagged, and raises board.unflagged by the number of flags
\* removed; reset() on a MappedBoard with flagged cells returns as well.
C21_MappedUnflagAll ==
    [][(mapped /\ board.flagged # {})
       => /\ last'.op = "unflag_all" =>
                 /\ pc' = "idle"
                 /\ board'.flagged = {}
                 /\ \A c \in board.flagged : ~board'.c_flagged[c]
                 /\ board'.unflagged = board.unflagged + Cardinality(board.flagged)
          /\ last'.op = "reset" => pc' = "idle"]_vars

\* analyze has just built a new board and placed its mines: after an
\* unsolvable stall or after a guess that was a mine.
Regenerated ==
    pc = "an_propagate" /\ last.op \in {"regen", "guess_mine"}

\* C22: after every regeneration of the whole board in analyze, the cell of
\* the new board at the start coordinates and its neighbours are not mines,
\* and that cell is revealed in the new board.
C22_RegenKeepsStart ==
    Regenerated =>
        /\ ~board.is_mine[StartOf(init_cell)]
        /\ \A n \in get_neighbour_cells(board, StartOf(init_cell)) : ~board.is_mine[n]
        /\ board.c_revealed[StartOf(init_cell)]
        /\ StartOf(init_cell) \in board.revealed

\* The solver has stalled on a board that is not won, and guessing is
\* allowed: analyze is about to call make_guess.
GuessDue == pc = "an_stalled" /\ ~no_guessing /\ ~check_win(board)

\* C23: whenever the solver has stalled on a board that is not won and
\* guessing is allowed, make_guess returns a hidden unflagged cell, from
\* the cluster of lowest ratio or from the cells in no cluster, also when
\* there is no cluster and when every hidden cell lies in a cluster.
C23_GuessReturnsCell ==
    [][GuessDue
       => /\ pc' # "raised"
          /\ GuessError(board, clusters) = "none"
          /\ make_guess(board, clusters) # {}
          /\ make_guess(board, clusters) \subseteq UnknownCells(board)]_vars


\* A propagation round of a generation run has just been made: a round of the
\* loop of analyze (analyzer.py line 77) or of the loop of the first
\* reveal_cell of a no-guessing MappedBoard (mapper.py line 57).
GenerationRound ==
    /\ last.op = "propagate"
    /\ pc \in {"an_propagate", "an_stalled", "mb_propagate", "mb_solved"}

\* The shape the solver assumes of a cluster (solver.py lines 26-29).
WellFormed(c) ==
    /\ c.cells # {}
    /\ 0 <= c.mines
    /\ c.mines <= Cardinality(c.cells)

\* C24: in every propagation round of a generation run, every cluster, from
\* its creation through every subtraction of the simplification loop, has a
\* non-empty cell set and a mine count between 0 and the number of its cells.
C24_ClustersWellFormed ==
    GenerationRound => \A c \in last.seen : WellFormed(c)


\* The round just made found no tile deduction and took the branch of
\* solver.py lines 151-154: the mine counts of self.clusters add up to
\* board.unflagged and the hidden unflagged cells outside them are revealed.
FallbackRound == last.op = "propagate" /\ last.kind = "outside"

\* C25: when a round finds no tile deduction and the mine counts of all live
\* clusters add up to board.unflagged, every hidden unflagged cell outside
\* all live clusters is not a mine, also when clusters overlap or are equal.
C25_FallbackSafe ==
    FallbackRound => \A c \in last.to_reveal : ~board.is_mine[c]

\* analyze on the grids of the model and on one row of WideCols cells, the
\* narrowest grid on which three hidden cells lie behind one flag.
WideCols == 6
WideShapes == Shapes \cup {<<1, WideCols>>}
InitAnWide ==
    /\ \E sh \in WideShapes : \E m \in 0..MaxMines :
           /\ board = NewBoard(sh[1], sh[2], m)
           /\ total = m
    /\ mapped = FALSE
    /\ no_guessing \in BOOLEAN
    /\ init_cell = 1
    /\ pc = "an_start"
    /\ err = "none"
    /\ clusters = <<>>
    /\ last = Step("init")
    /\ ops = 0
SpecAnWide == InitAnWide /\ [][NextAn]_vars

\* The step is a mine-walled repair that went through (analyzer.py lines
\* 108-128, mapper.py lines 71-91).
WallRepaired == last'.op = "wall" /\ pc' # "raised"

\* The layout after is the layout before with the mine of f taken away and a
\* mine on h, a hidden unflagged cell of b that held none.
OneMineMoved(b, after, f, h) ==
    /\ h \in UnknownCells(b)
    /\ h \notin Layout(b)
    /\ after = (Layout(b) \ {f}) \cup {h}

\* C26: the mine-walled repair relocates exactly one mine: the mine of the
\* chosen flagged cell is removed, one mine is added on a hidden unflagged
\* cell, and every other mine stays on the cell it was on.
C26_RelocatesOneMine ==
    [][WallRepaired
       => \E f \in WallFlags(board) : \E h \in Own(board) :
              OneMineMoved(board, Layout(board'), f, h)]_vars

\* The step is a rearrangement that went through (analyzer.py lines
\* 146-156, mapper.py lines 108-117).
Rearranged == last'.op = "rearrange" /\ pc' # "raised"

\* The mines that lie on hidden unflagged cells.
HiddenMines(b) == Layout(b) \cap UnknownCells(b)

\* C27: a rearrangement changes is_mine on hidden unflagged cells only: every
\* flagged cell that was a mine is still one, every revealed cell that was no
\* mine is still none, the revealed and the flagged sets are as before, and
\* the mines among the hidden unflagged cells number board.unflagged.
C27_RearrangeFrame ==
    [][Rearranged
       => /\ \A c \in Own(board) \ UnknownCells(board) :
                 board'.is_mine[c] = board.is_mine[c]
          /\ \A c \in board.flagged : board.is_mine[c] => board'.is_mine[c]
          /\ \A c \in board.revealed : ~board.is_mine[c] => ~board'.is_mine[c]
          /\ board'.revealed = board.revealed
          /\ board'.flagged = board.flagged
          /\ board'.c_revealed = board.c_revealed
          /\ board'.c_flagged = board.c_flagged
          /\ Cardinality(HiddenMines(board')) = board'.unflagged]_vars

\* A rearrangement has just gone through on a board with revealed cells, a
\* flag on a mine and mines among the hidden unflagged cells.
C27_Witness ==
    /\ last.op = "rearrange"
    /\ pc \in {"an_propagate", "mb_propagate"}
    /\ board.revealed # {}
    /\ \E c \in board.flagged : board.is_mine[c]
    /\ HiddenMines(board) # {}

\* The hidden unflagged neighbours of c.
HiddenAround(b, c) ==
    {n \in get_neighbour_cells(b, c) : ~b.c_revealed[n] /\ ~b.c_flagged[n]}

\* The revealed cells that need no further mine and have a hidden unflagged
\* neighbour (solver.py lines 56-59 and 73-75).
Satisfied(b) ==
    {c \in b.revealed : b.mines[c] - b.flags[c] = 0 /\ HiddenAround(b, c) # {}}

\* A rearrangement has just gone through and the generation loop is about
\* to call propagate_known_values (analyzer.py line 77, mapper.py line 57).
AfterRearrange ==
    /\ last.op = "rearrange"
    /\ pc \in {"an_propagate", "mb_propagate"}

\* C28: when a rearrangement leaves a revealed cell with mines - flags = 0
\* and a hidden unflagged neighbour, the propagation round that follows
\* reveals every hidden unflagged neighbour of that cell.
C28_NextRoundReveals ==
    [][(AfterRearrange /\ last'.op = "propagate")
       => \A c \in Satisfied(board) :
              \A n \in HiddenAround(board, c) :
                  board'.c_revealed[n] /\ n \in board'.revealed]_vars

\* A rearrangement has left such a cell.
C28_Witness == AfterRearrange /\ Satisfied(board) # {}

\* The first reveal_cell of a MappedBoard has returned (mapper.py lines
\* 42-117), with or without the no-guessing generation.
FirstRevealReturned ==
    /\ mapped
    /\ pc = "idle"
    /\ last.op \in {"first_reveal", "generated"}

\* A repair step of analyze has gone through (analyzer.py lines 102-175).
RepairDone ==
    /\ ~mapped
    /\ pc = "an_propagate"
    /\ last.op \in {"wall", "regen", "rearrange", "guess_mine"}

\* C29: the number of mines is kept. When the first reveal_cell of a
\* MappedBoard built with M mines returns, exactly M cells are mines,
\* whatever flag_cell calls came before and whatever repairs were made; the
\* same holds of the board of analyze after every repair step.
C29_MinesConserved ==
    (FirstRevealReturned \/ RepairDone) => Cardinality(Layout(board)) = total

\* The generation loop is about to take the mine-walled branch
\* (analyzer.py line 108, mapper.py line 71).
WallDue ==
    /\ \/ pc = "an_stalled" /\ no_guessing
       \/ pc = "mb_solved"
    /\ ~check_win(board)
    /\ MineWalled(board)

\* C30: whenever the generation loop takes the mine-walled branch, a flagged
\* cell lies next to a hidden unflagged cell, so the list rand_choice draws
\* from is not empty.
C30_WallHasFlag == WallDue => WallFlags(board) # {}

\* analyze on one grid of TallRows rows and TallCols columns with TallMines
\* mines, the smallest grid found on which a repair of the generation loop
\* asks place_mines for more mines than it can place, or for fewer than 0.
TallRows == 3
TallCols == 4
TallMines == 3
InitAnTall ==
    /\ board = NewBoard(TallRows, TallCols, TallMines)
    /\ total = TallMines
    /\ mapped = FALSE
    /\ no_guessing \in BOOLEAN
    /\ init_cell = 1
    /\ pc = "an_start"
    /\ err = "none"
    /\ clusters = <<>>
    /\ last = Step("init")
    /\ ops = 0
SpecAnTall == InitAnTall /\ [][NextAn]_vars

\* random.sample has raised ValueError in the place_mines call of a repair
\* branch (board.py line 112 called from analyzer.py lines 118, 136 and 153
\* or mapper.py lines 81, 101 and 115).
SamplingFailed ==
    /\ pc = "raised"
    /\ err = "ValueError"
    /\ last.op \in {"wall", "regen", "rearrange"}

\* C31: once the first placement has gone through, every place_mines call
\* of a repair branch of the generation loop asks for a number of mines
\* between 0 and the size of its perimeter, so the sampling never fails.
C31_SamplingNeverFails == ~SamplingFailed

RECURSIVE MarkEach(_, _)
\* Cell.reveal and the set updates of reveal_cell (board.py lines 119-121)
\* on every cell of todo, without the flood.
MarkEach(b, todo) ==
    IF todo = <<>> THEN b ELSE MarkEach(MarkRevealed(b, Head(todo)), Tail(todo))

\* A board of the grid sh with the mines L, the cells R revealed and the
\* cells F flagged: is_mine and the mines counters as place_mines sets
\* them (board.py lines 112-116), the flags as flag_cell sets them.
BoardWith(sh, L, R, F) ==
    FlagEach(MarkEach(SetMines(NewBoard(sh[1], sh[2], Cardinality(L)), L),
                      Ascending(R)),
             Ascending(F))

\* The layouts of at most MaxMines mines on the grid sh.
LayoutsOn(sh) == {L \in SUBSET (1..(sh[1] * sh[2])) : Cardinality(L) <= MaxMines}

\* Solver.propagate_known_values as a function of the board: the boards it
\* is called on are all the grids of the model with some of the non-mines
\* revealed and some of the mines flagged.
InitTiles ==
    /\ \E sh \in Shapes : \E L \in LayoutsOn(sh) :
         \E R \in SUBSET ((1..(sh[1] * sh[2])) \ L) : \E F \in SUBSET L :
           /\ board = BoardWith(sh, L, R, F)
           /\ total = Cardinality(L)
    /\ mapped = FALSE
    /\ no_guessing = TRUE
    /\ init_cell = None
    /\ pc = "tile_ready"
    /\ err = "none"
    /\ clusters = <<>>
    /\ last = Step("init")
    /\ ops = 0

\* One call of propagate_known_values (solver.py lines 49-166).
TileRound ==
    /\ pc = "tile_ready"
    /\ \E order \in IterOrders : \E d \in {Deduce(board, order)} :
           PropagateRound(d, "tile_done", "tile_done")

SpecTiles == InitTiles /\ [][TileRound]_vars

\* The board the claim speaks of: SoundBoard, every flags counter the number
\* of flagged neighbours, and known set on the revealed and flagged cells.
TileSound(b) ==
    /\ SoundBoard(b)
    /\ \A c \in Own(b) : b.flags[c] = FlaggedAround(b, c)
    /\ \A c \in Own(b) : b.known[c] = (b.c_revealed[c] \/ b.c_flagged[c])

\* The round the step makes found its cells by the two tile passes (solver.py
\* lines 64-138), not by the final checks.
TilePasses == last'.op = "propagate" /\ last'.kind = "tiles"

InitPlace ==
    /\ \E sh \in Shapes : \E L \in LayoutsOn(sh) :
           /\ board = BoardWith(sh, L, {}, {})
           /\ total = Cardinality(L)
    /\ mapped = FALSE
    /\ no_guessing = FALSE
    /\ init_cell = None
    /\ pc = "place_ready"
    /\ err = "none"
    /\ clusters = <<>>
    /\ last = Step("init")
    /\ ops = 0

\* board.py lines 101-116 with n_mines mines asked for: the mines of the
\* perimeter are cleared, then sample draws or raises.
PlaceMinesOn(b, perimeter, n_mines) ==
    IF CanSample(b, perimeter, n_mines)
    THEN /\ \E S \in Samples(PerimeterCells(b, perimeter), n_mines) :
                board' = place_mines(b, perimeter, S)
         /\ pc' = "place_done"
         /\ last' = Step("place")
         /\ UNCHANGED <<mapped, no_guessing, total, init_cell, err, clusters, ops>>
    ELSE Raise("ValueError", ClearMines(b, perimeter), "place")

\* One call place_mines(perimeter, n_mines) with any set of cells and any
\* number up to MaxMines.
PlaceCall ==
    /\ pc = "place_ready"
    /\ \E perimeter \in SUBSET Own(board) : \E n_mines \in 0..MaxMines :
           PlaceMinesOn(board, perimeter, n_mines)

SpecPlace == InitPlace /\ [][PlaceCall]_vars

\* The step is a place_mines call in which random.sample raised ValueError
\* (board.py line 112).
PlaceFailed == pc' = "raised" /\ err' = "ValueError"

\* C33: a place_mines call that fails, more mines asked for than the
\* perimeter has cells, leaves the ground truth as it was: no cell's is_mine
\* or mines value differs from before the call.
C33_FailedPlaceKeepsTruth ==
    [][PlaceFailed
       => /\ board'.is_mine = board.is_mine
          /\ board'.mines = board.mines]_vars

(***************************************************************************)
(* main.py: the older single-file variant (Cell, Board, Solver)            *)
(*                                                                         *)
(* The board record is the one above; Cell.value is the field mines,       *)
(* Cell.revealed is c_revealed and Cell.flagged is c_flagged.  On a Board  *)
(* of main.py the field unrevealed is Board.unrevealed; on a Solver of     *)
(* main.py unrevealed and flagged are Solver.unrevealed and                *)
(* Solver.flagged.  The fields flags, known and revealed have no           *)
(* counterpart in main.py and keep the values NewBoard gives them.  The    *)
(* trigger letters of Mapper are input mapping and are not modelled:       *)
(* before the first reveal the queue is empty and every hidden cell of a   *)
(* grid of at most 26 cells has a letter.                                  *)
(***************************************************************************)

\* Board.__init__ of main.py.
main_Board(rows, cols, mines) == NewBoard(rows, cols, mines)

\* Board.get_neighbors and Solver.get_neighbors of main.py.
main_get_neighbors(b, c) == Around(b, RowOf(b, c), ColOf(b, c))

\* Board.place_mines of main.py, lines 148-153: the perimeter of the start
\* cell, the population the sample is drawn from, and the marking loop.
main_perimeter(b, c) == main_get_neighbors(b, c) \cup {c}
main_population(b, c) == b.unrevealed \ main_perimeter(b, c)
main_set_mines(b, S) ==
    [b EXCEPT
        !.is_mine = [c \in Ids(b) |-> IF c \in S THEN TRUE ELSE b.is_mine[c]],
        !.mines = [c \in Ids(b) |->
            IF c \in Own(b)
            THEN b.mines[c] + Cardinality(main_get_neighbors(b, c) \cap S)
            ELSE b.mines[c]]]

\* Board.reset of main.py: new cells, every one of them unrevealed; the
\* counter unflagged is not touched.
main_reset(b) == main_Board(b.rows, b.cols, b.unflagged)

\* Cell.reveal followed by unrevealed.discard(cell).
main_mark(b, c) == [b EXCEPT !.c_revealed[c] = TRUE, !.unrevealed = @ \ {c}]

\* Board.reveal_cell.expand of main.py and Solver.reveal_cell of main.py
\* (the same marking and the same flood): reveal c and, when its value is 0,
\* each neighbour that is still not revealed when its turn comes.
RECURSIVE main_expand(_, _)
RECURSIVE MainExpandNeighbours(_, _, _)
MainExpandNeighbour(b, c, n) ==
    IF ~b.c_revealed[n] /\ b.mines[c] = 0 THEN main_expand(b, n) ELSE b
MainExpandNeighbours(b, c, todo) ==
    IF todo = <<>> THEN b
    ELSE MainExpandNeighbours(MainExpandNeighbour(b, c, Head(todo)), c, Tail(todo))
main_expand(b, c) ==
    MainExpandNeighbours(main_mark(b, c), c, Ascending(main_get_neighbors(b, c)))

RECURSIVE MainRevealEach(_, _)
\* for cell in ...: self.reveal_cell(cell).  Once no cell is hidden a further
\* reveal_cell marks a revealed cell and finds no neighbour to descend into.
MainRevealEach(s, todo) ==
    IF todo = <<>> \/ s.unrevealed = {} THEN s
    ELSE MainRevealEach(main_expand(s, Head(todo)), Tail(todo))

\* Board.flag of main.py: the flag is toggled, the counter always goes down.
main_flag(b, c) ==
    [b EXCEPT !.c_flagged[c] = ~b.c_flagged[c], !.unflagged = @ - 1]

\* Board.unflag_all of main.py.
main_unflag_all(b, mines) ==
    [b EXCEPT
        !.c_flagged = [c \in Ids(b) |->
            IF c \in b.unrevealed THEN FALSE ELSE b.c_flagged[c]],
        !.unflagged = mines]

\* Board.check_win of main.py.
main_check_win(b) == \A c \in b.unrevealed : b.is_mine[c]

\* Solver.__init__ of main.py: a copy of the grid that takes value, is_mine
\* and revealed from each cell; the copies are unflagged and the set flagged
\* is empty.
main_Solver(b) ==
    [main_Board(b.rows, b.cols, 0) EXCEPT
        !.is_mine = b.is_mine,
        !.mines = b.mines,
        !.c_revealed = b.c_revealed,
        !.unrevealed = {c \in Own(b) : ~b.c_revealed[c]}]

\* The three neighbour sets of propagate_known_values and find_safe_cells.
main_revealed_neighbors(s, c) == {n \in main_get_neighbors(s, c) : s.c_revealed[n]}
main_flagged_neighbors(s, c) == {n \in main_get_neighbors(s, c) : s.c_flagged[n]}
main_unrevealed_neighbors(s, c) ==
    (main_get_neighbors(s, c) \ main_revealed_neighbors(s, c))
        \ main_flagged_neighbors(s, c)

\* Solver.propagate_known_values, lines 271-274: every neighbour of the
\* second branch has its flag toggled and the cell itself joins flagged.
MainFlagAround(s, c) ==
    [s EXCEPT
        !.c_flagged = [x \in Ids(s) |->
            IF x \in main_unrevealed_neighbors(s, c)
            THEN ~s.c_flagged[x] ELSE s.c_flagged[x]],
        !.flagged = @ \cup {c}]

\* Solver.propagate_known_values, the body of the two loops for the cell c.
\* p.s is the solver, p.changes the local variable changes.  The first
\* branch calls reveal_cell on the cell itself, once per neighbour.
MainVisit(p, c) ==
    IF ~(p.s.c_revealed[c] /\ ~p.s.is_mine[c]) THEN p
    ELSE IF main_unrevealed_neighbors(p.s, c) = {} THEN p
    ELSE IF p.s.mines[c] = Cardinality(main_flagged_neighbors(p.s, c))
    THEN [s |-> main_expand(p.s, c), changes |-> TRUE]
    ELSE IF p.s.mines[c] = Cardinality(main_revealed_neighbors(p.s, c))
                              + Cardinality(main_flagged_neighbors(p.s, c))
    THEN [s |-> MainFlagAround(p.s, c), changes |-> TRUE]
    ELSE p

RECURSIVE MainVisitEach(_, _)
MainVisitEach(p, todo) ==
    IF todo = <<>> THEN p
    ELSE MainVisitEach(MainVisit(p, Head(todo)), Tail(todo))

\* Solver.propagate_known_values: the cells are visited row by row.
main_propagate_known_values(s) ==
    MainVisitEach([s |-> s, changes |-> FALSE], Ascending(Own(s)))

\* Solver.solve, lines 245-246: the passes are repeated while one of them
\* reports a change.
RECURSIVE MainPropagateAll(_)
MainAfterPass(p) == IF p.changes THEN MainPropagateAll(p.s) ELSE p.s
MainPropagateAll(s) == MainAfterPass(main_propagate_known_values(s))

RECURSIVE MainSumValues(_, _)
\* sum(n.value for n in revealed_neighbors).
MainSumValues(s, todo) ==
    IF todo = <<>> THEN 0
    ELSE s.mines[Head(todo)] + MainSumValues(s, Tail(todo))

\* Solver.find_safe_cells.
main_find_safe_cells(s) ==
    {c \in s.unrevealed \ s.flagged :
        MainSumValues(s, Ascending(main_revealed_neighbors(s, c)))
            + Cardinality(main_flagged_neighbors(s, c)) = 0}

\* Solver.solve, lines 248-250: the safe cells are collected once, then
\* revealed one after the other.
MainRevealSafe(s) ==
    IF s.unrevealed # {}
    THEN MainRevealEach(s, Ascending(main_find_safe_cells(s)))
    ELSE s

\* The Solver of main.py when solve returns, and the value solve returns.
MainSolved(b) == MainRevealSafe(MainPropagateAll(main_Solver(b)))
main_solve(b) == (MainSolved(b).unrevealed \ MainSolved(b).flagged) = {}

\* A game of main.py before its first key press.
InitMain ==
    /\ \E sh \in Shapes : \E m \in 0..MaxMines :
          /\ board = main_Board(sh[1], sh[2], m)
          /\ total = m
    /\ mapped = FALSE
    /\ no_guessing \in BOOLEAN
    /\ init_cell = None
    /\ pc = "main_ready"
    /\ err = "none"
    /\ clusters = <<>>
    /\ last = Step("init")
    /\ ops = 0

\* Minesweeper.play, an upper-case letter before the first reveal:
\* Board.flag on the cell the letter stands for.
MainFlag ==
    /\ pc = "main_ready"
    /\ ops < MaxOps
    /\ \E c \in board.unrevealed :
          /\ board' = main_flag(board, c)
          /\ last' = Call("flag", c)
    /\ ops' = ops + 1
    /\ UNCHANGED <<mapped, no_guessing, total, init_cell, pc, err, clusters>>

\* Minesweeper.play, backspace before the first reveal: Board.unflag_all.
MainUnflagAll ==
    /\ pc = "main_ready"
    /\ ops < MaxOps
    /\ board' = main_unflag_all(board, total)
    /\ last' = Step("unflag_all")
    /\ ops' = ops + 1
    /\ UNCHANGED <<mapped, no_guessing, total, init_cell, pc, err, clusters>>

\* Board.reveal_cell of main.py, lines 173-174: the first reveal records the
\* start cell and calls place_mines.
MainRevealFirst ==
    /\ pc = "main_ready"
    /\ \E c \in board.unrevealed :
          /\ init_cell' = c
          /\ last' = Call("reveal", c)
    /\ pc' = "main_place"
    /\ UNCHANGED <<board, mapped, no_guessing, total, err, clusters, ops>>

\* Board.place_mines of main.py with the sample S drawn: in no-guessing mode
\* a layout on which solve returns False is dropped, the grid is rebuilt and
\* place_mines runs again on the cell at the start cell's coordinates; any
\* other layout is kept and place_mines returns.
MainKeepOrRetry(placed) ==
    IF no_guessing /\ ~main_solve(placed)
    THEN /\ board' = main_reset(placed)
         /\ pc' = "main_place"
         /\ last' = Call("retry", init_cell)
    ELSE /\ board' = placed
         /\ pc' = "main_placed"
         /\ last' = Call("place", init_cell)

\* Board.place_mines of main.py: sample raises ValueError when the cells
\* outside the perimeter are fewer than the mines.
MainPlaceMines ==
    /\ pc = "main_place"
    /\ IF total > Cardinality(main_population(board, init_cell))
       THEN Raise("ValueError", board, "place")
       ELSE /\ \E S \in Samples(main_population(board, init_cell), total) :
                  MainKeepOrRetry(main_set_mines(board, S))
            /\ UNCHANGED <<mapped, no_guessing, total, init_cell, err, clusters, ops>>

\* Board.reveal_cell of main.py, lines 178-184, and the tests Minesweeper.play
\* makes on its return: a mine ends the game with reveal_all, a board whose
\* hidden cells are all mines ends it with a win.
MainExpandFirst ==
    /\ pc = "main_placed"
    /\ IF board.is_mine[init_cell]
       THEN /\ board' = [board EXCEPT
                   !.c_revealed = [c \in Ids(board) |->
                       IF c \in board.unrevealed THEN TRUE ELSE board.c_revealed[c]]]
            /\ pc' = "main_lost"
            /\ last' = [Call("reveal", init_cell) EXCEPT !.ret = TRUE]
       ELSE /\ board' = main_expand(board, init_cell)
            /\ pc' = IF main_check_win(main_expand(board, init_cell))
                     THEN "main_won" ELSE "main_played"
            /\ last' = Call("reveal", init_cell)
    /\ UNCHANGED <<mapped, no_guessing, total, init_cell, err, clusters, ops>>

NextMain ==
    \/ MainFlag
    \/ MainUnflagAll
    \/ MainRevealFirst
    \/ MainPlaceMines
    \/ MainExpandFirst

SpecMain == InitMain /\ [][NextMain]_vars

\* The Solver of main.py revealed no mine and left no cell without a mine
\* hidden.
MainCleared(s) ==
    /\ \A c \in Own(s) : s.is_mine[c] => ~s.c_revealed[c]
    /\ \A c \in Own(s) : ~s.is_mine[c] => s.c_revealed[c]

\* place_mines of main.py has returned in no-guessing mode: the layout of
\* the board is the one it accepted.
MainAccepted == pc = "main_placed" /\ no_guessing

\* C34: in no-guessing mode main.py accepts a mine layout only if its
\* Solver, working on its copy of the board, clears every cell without a
\* mine and never reveals a mine; a layout it cannot clear that way is not
\* the one place_mines returns with.
C34_MainAcceptsOnlySolved == MainAccepted => MainCleared(MainSolved(board))

====
